---------------------------- MODULE Spec2Model ----------------------------
(***************************************************************************)
(* Model of Mephisto's admission control (mephisto/core/task_launcher.py,  *)
(* class TaskLauncher) and of the execution driver                         *)
(* (mephisto/data_model/blueprint.py, class TaskRunner).                    *)
(*                                                                         *)
(* The launcher is modelled with its three execution contexts: the caller  *)
(* (create_assignments, launch_units, expire_units), the streaming         *)
(* registration thread (manage_generators) and the launch thread           *)
(* (_launch_limited_units driving the generator generate_units).  Every    *)
(* statement that reads or writes shared state is one step.                *)
(***************************************************************************)
EXTENDS Naturals, Integers, Sequences, FiniteSets, TLC

(* ------------------------------ bounds --------------------------------- *)
MaxUnits == 2
MaxCap == 1
NumEntities == 2
NumAgents == 2
NumContexts == 2

VARIABLES
  (* TaskLauncher fields *)
  generator_type,            \* "none" | "assignment"
  max_num_concurrent_units,
  source,                    \* the data source: unit count of each record
  srcPos,                    \* records already pulled from the source
  assignments,               \* self.assignments: assignment ids
  units,                     \* self.units: unit ids in creation order
  dbUnits,                   \* unit table of the db: [asg, idx] by unit id
  unitStatus,                \* unit.get_status() by unit id
  launched_units,            \* dict, as the sequence of its keys
  unlaunched_units,          \* dict, as the sequence of its keys
  keep_launching_units,
  finished_generators,
  did_create_assignments,
  did_launch_units,
  (* execution contexts *)
  callerPc,
  expIdx,                    \* position of expire_units in self.units
  regPc,
  csa,                       \* frame of _create_single_assignment, per context
  launchPc,
  gen,                       \* frame of the generator generate_units
  (* history *)
  hist,
  (* TaskRunner fields *)
  running_units,
  running_assignments,
  running_onboardings,
  (* entities the execution driver works on *)
  agentStatus,               \* agent.get_status() by agent
  assignedAgent,             \* units that hold an assigned-agent reference
  expiredAgentUnits,         \* agents whose unit was expired by the driver
  doneOnboardings,           \* onboarding agents marked done
  call                       \* frame of launch_*, per execution context

launcherVars == <<generator_type, max_num_concurrent_units, source, srcPos,
                  assignments, units, dbUnits, unitStatus, launched_units,
                  unlaunched_units, keep_launching_units, finished_generators,
                  did_create_assignments, did_launch_units, callerPc, expIdx,
                  regPc, csa, launchPc, gen, hist>>

runnerVars == <<running_units, running_assignments, running_onboardings,
                agentStatus, assignedAgent, expiredAgentUnits,
                doneOnboardings, call>>

vars == <<launcherVars, runnerVars>>

(* ------------------------------ helpers -------------------------------- *)
Range(s) == {s[i] : i \in 1..Len(s)}

RECURSIVE SumSeq(_)
SumSeq(s) == IF s = <<>> THEN 0 ELSE s[1] + SumSeq(Tail(s))

RECURSIVE RemoveAll(_, _)
RemoveAll(s, ks) ==
  IF s = <<>> THEN <<>>
  ELSE IF s[1] \in ks THEN RemoveAll(Tail(s), ks)
       ELSE <<s[1]>> \o RemoveAll(Tail(s), ks)

SeqsUpTo(S, n) == UNION {[1..k -> S] : k \in 0..n}

(* the data sources: up to MaxUnits unit payloads in all, spread over
   records of at least one payload each, and the source of one record
   without payloads *)
Sources == {s \in SeqsUpTo(1..MaxUnits, MaxUnits) : SumSeq(s) <= MaxUnits} \cup {<<0>>}

Contexts == {"caller", "reg"}

NoFrame == [pc |-> "none", count |-> 0, asg |-> 0, idx |-> 0, uid |-> 0]

(* the locals of generate_units; afterExpire notes that the cycle under way
   began when expire_units had already returned *)
NoGen == [num_avail_units |-> 0, i |-> 0, di_used |-> 0, to_remove |-> <<>>,
          afterExpire |-> FALSE]

InitHist == [yielded |-> <<>>, createCalled |-> FALSE, createReturned |-> FALSE,
             launchCalled |-> FALSE, launchBeforeCreateReturned |-> FALSE,
             expireCalled |-> FALSE, expireReturned |-> FALSE,
             exhausted |-> FALSE]

(* AssignmentState: the statuses in which a unit still holds a slot, and
   the statuses from which a unit goes nowhere else. *)
RunningStatuses == {"launched", "assigned"}
TerminalStatuses == {"completed", "expired"}

(* TaskLauncher.__init__ *)
LauncherInit ==
  /\ generator_type \in {"none", "assignment"}
  /\ max_num_concurrent_units \in 0..MaxCap
  /\ source \in Sources
  /\ srcPos = 0
  /\ assignments = <<>>
  /\ units = <<>>
  /\ dbUnits = <<>>
  /\ unitStatus = <<>>
  /\ launched_units = <<>>
  /\ unlaunched_units = <<>>
  /\ keep_launching_units = FALSE
  /\ finished_generators = FALSE
  /\ did_create_assignments = FALSE
  /\ did_launch_units = FALSE
  /\ callerPc = "idle"
  /\ expIdx = 0
  /\ regPc = IF generator_type = "none" THEN "off" ELSE "while"
  /\ csa = [t \in Contexts |-> NoFrame]
  /\ launchPc = "idle"
  /\ gen = NoGen
  /\ hist = InitHist

(* ------------------- Unit (mephisto.data_model.assignment) ------------- *)
(* Unit.expire(): the unit ends expired; a call that raises may or may not
   have recorded the new status before failing. *)
UnitExpire(st, u, recorded) ==
  IF recorded THEN [st EXCEPT ![u] = "expired"] ELSE st

(* Unit.launch(url): a created unit becomes launched. *)
UnitLaunch(st, u) ==
  IF st[u] = "created" THEN [st EXCEPT ![u] = "launched"] ELSE st

(* ---------------- _create_single_assignment (lines 94-125) ------------- *)
CsaDone(t) ==
  /\ csa' = [csa EXCEPT ![t] = NoFrame]
  /\ IF t = "caller"
       THEN callerPc' = "create_for" /\ UNCHANGED regPc
       ELSE regPc' = "while" /\ UNCHANGED callerPc

NewUnitRowFromOne(assignment_id, unit_idx) ==
  [asg |-> assignment_id, idx |-> unit_idx + 1]

(* lines 111-121: the row db.new_unit stores for a unit *)
NewUnitRow(assignment_id, unit_idx) ==
  [asg |-> assignment_id, idx |-> unit_idx]

(* lines 94-109: _create_single_assignment is entered by context t for a
   record of count unit payloads: db.new_assignment,
   self.assignments.append, unit_count.  No other thread reads
   self.assignments, so this is one step with the pull of the record. *)
CsaNewAssignment(t, count) ==
  /\ assignments' = Append(assignments, Len(assignments) + 1)
  /\ csa' = [csa EXCEPT ![t] =
               IF count = 0 THEN NoFrame
               ELSE [NoFrame EXCEPT !.pc = "new_unit", !.count = count,
                                    !.asg = Len(assignments) + 1, !.idx = 0]]
  /\ IF t = "caller"
       THEN /\ callerPc' = IF count = 0 THEN "create_for" ELSE "create_csa"
            /\ UNCHANGED regPc
       ELSE /\ regPc' = IF count = 0 THEN "while" ELSE "csa"
            /\ UNCHANGED callerPc

(* lines 110-122: db.new_unit(..., assignment_id, unit_idx, ...) and
   self.units.append *)
CsaNewUnit(t) ==
  /\ csa[t].pc = "new_unit"
  /\ dbUnits' = Append(dbUnits, NewUnitRow(csa[t].asg, csa[t].idx))
  /\ unitStatus' = Append(unitStatus, "created")
  /\ units' = Append(units, Len(dbUnits) + 1)
  /\ csa' = [csa EXCEPT ![t].pc = "insert", ![t].uid = Len(dbUnits) + 1]
  /\ UNCHANGED runnerVars
  /\ UNCHANGED <<generator_type, max_num_concurrent_units, source, srcPos,
                 assignments, launched_units, unlaunched_units,
                 keep_launching_units, finished_generators,
                 did_create_assignments, did_launch_units, callerPc, expIdx,
                 regPc, launchPc, gen, hist>>

(* lines 111-121: db.new_unit raises.  Nothing in _create_single_assignment
   catches it: in the caller it leaves create_assignments (lines 140-141),
   in the registration thread it passes the except StopIteration of line
   132 and ends the thread. *)
CsaNewUnitFails(t) ==
  /\ csa[t].pc = "new_unit"
  /\ csa' = [csa EXCEPT ![t] = NoFrame]
  /\ IF t = "caller"
       THEN callerPc' = "idle" /\ UNCHANGED regPc
       ELSE regPc' = "crashed" /\ UNCHANGED callerPc
  /\ UNCHANGED runnerVars
  /\ UNCHANGED <<generator_type, max_num_concurrent_units, source, srcPos,
                 assignments, units, dbUnits, unitStatus, launched_units,
                 unlaunched_units, keep_launching_units, finished_generators,
                 did_create_assignments, did_launch_units, expIdx, launchPc,
                 gen, hist>>

(* setting a dict key: a new key goes to the end, an old one keeps its place *)
DictSet(d, k) == IF k \in Range(d) THEN d ELSE Append(d, k)

(* lines 123-124: self.unlaunched_units[unit_id] = Unit(...), under the lock *)
CsaInsert(t) ==
  /\ csa[t].pc = "insert"
  /\ unlaunched_units' = DictSet(unlaunched_units, csa[t].uid)
  /\ csa' = [csa EXCEPT ![t].pc = "keep"]
  /\ UNCHANGED runnerVars
  /\ UNCHANGED <<generator_type, max_num_concurrent_units, source, srcPos,
                 assignments, units, dbUnits, unitStatus, launched_units,
                 keep_launching_units, finished_generators,
                 did_create_assignments, did_launch_units, callerPc, expIdx,
                 regPc, launchPc, gen, hist>>

(* line 125: self.keep_launching_units = True, then the next unit_idx *)
CsaKeep(t) ==
  /\ csa[t].pc = "keep"
  /\ keep_launching_units' = TRUE
  /\ IF csa[t].idx + 1 < csa[t].count
       THEN /\ csa' = [csa EXCEPT ![t].pc = "new_unit",
                                  ![t].idx = csa[t].idx + 1]
            /\ UNCHANGED <<callerPc, regPc>>
       ELSE CsaDone(t)
  /\ UNCHANGED runnerVars
  /\ UNCHANGED <<generator_type, max_num_concurrent_units, source, srcPos,
                 assignments, units, dbUnits, unitStatus, launched_units,
                 unlaunched_units, finished_generators,
                 did_create_assignments, did_launch_units, expIdx, launchPc,
                 gen, hist>>

(* ---------------------- create_assignments (137-144) ------------------- *)
(* line 139, and in streaming mode line 143.  A bounded source is drained
   by one call; in streaming mode the call may be repeated.  expire_units
   is the teardown, the caller's last call. *)
CreateAssignmentsCall ==
  /\ callerPc = "idle"
  /\ ~hist.expireCalled
  /\ generator_type = "none" => ~hist.createCalled
  /\ hist' = [hist EXCEPT !.createCalled = (generator_type = "none")]
  /\ IF generator_type = "none"
       THEN callerPc' = "create_for" /\ UNCHANGED did_create_assignments
       ELSE callerPc' = "create_144" /\ did_create_assignments' = TRUE
  /\ UNCHANGED runnerVars
  /\ UNCHANGED <<generator_type, max_num_concurrent_units, source, srcPos,
                 assignments, units, dbUnits, unitStatus, launched_units,
                 unlaunched_units, keep_launching_units, finished_generators,
                 did_launch_units, expIdx, regPc, csa, launchPc, gen>>

(* line 144 *)
CreateAssignments144 ==
  /\ callerPc = "create_144"
  /\ did_launch_units' = TRUE
  /\ callerPc' = "idle"
  /\ UNCHANGED runnerVars
  /\ UNCHANGED <<generator_type, max_num_concurrent_units, source, srcPos,
                 assignments, units, dbUnits, unitStatus, launched_units,
                 unlaunched_units, keep_launching_units, finished_generators,
                 did_create_assignments, expIdx, regPc, csa, launchPc, gen,
                 hist>>

(* lines 140-141: the for statement takes the next record or ends *)
CreateAssignmentsFor ==
  /\ callerPc = "create_for"
  /\ IF srcPos < Len(source)
       THEN /\ srcPos' = srcPos + 1
            /\ CsaNewAssignment("caller", source[srcPos + 1])
            /\ UNCHANGED hist
       ELSE /\ callerPc' = "idle"
            /\ hist' = [hist EXCEPT !.createReturned = TRUE]
            /\ UNCHANGED <<srcPos, csa, assignments, regPc>>
  /\ UNCHANGED runnerVars
  /\ UNCHANGED <<generator_type, max_num_concurrent_units, source,
                 units, dbUnits, unitStatus, launched_units,
                 unlaunched_units, keep_launching_units, finished_generators,
                 did_create_assignments, did_launch_units, expIdx,
                 launchPc, gen>>

(* ------------------------ launch_units (194-198) ----------------------- *)
LaunchUnitsCall ==
  /\ callerPc = "idle"
  /\ ~hist.expireCalled
  /\ ~hist.launchCalled
  /\ did_launch_units' = TRUE
  /\ launchPc' = "outer"
  /\ hist' = [hist EXCEPT !.launchCalled = TRUE,
                          !.launchBeforeCreateReturned = ~hist.createReturned]
  /\ UNCHANGED runnerVars
  /\ UNCHANGED <<generator_type, max_num_concurrent_units, source, srcPos,
                 assignments, units, dbUnits, unitStatus, launched_units,
                 unlaunched_units, keep_launching_units, finished_generators,
                 did_create_assignments, callerPc, expIdx, regPc, csa, gen>>

(* ------------------------ expire_units (200-211) ----------------------- *)
(* line 202 *)
ExpireUnitsCall ==
  /\ callerPc = "idle"
  /\ ~hist.expireCalled
  /\ keep_launching_units' = FALSE
  /\ callerPc' = "expire_203"
  /\ hist' = [hist EXCEPT !.expireCalled = TRUE]
  /\ UNCHANGED runnerVars
  /\ UNCHANGED <<generator_type, max_num_concurrent_units, source, srcPos,
                 assignments, units, dbUnits, unitStatus, launched_units,
                 unlaunched_units, finished_generators,
                 did_create_assignments, did_launch_units, expIdx, regPc, csa,
                 launchPc, gen>>

(* line 203 *)
ExpireUnits203 ==
  /\ callerPc = "expire_203"
  /\ finished_generators' = TRUE
  /\ callerPc' = "expire_for"
  /\ expIdx' = 1
  /\ UNCHANGED runnerVars
  /\ UNCHANGED <<generator_type, max_num_concurrent_units, source, srcPos,
                 assignments, units, dbUnits, unitStatus, launched_units,
                 unlaunched_units, keep_launching_units,
                 did_create_assignments, did_launch_units, regPc, csa,
                 launchPc, gen, hist>>

ExpireStopsOnFailure(raised) == ~raised

(* lines 207-211: the except clause logs what unit.expire() raised and the
   for loop goes on *)
ExpireGoesOn(raised) == TRUE

(* lines 204-211: the next unit of self.units is expired (a call that did
   not record the status has raised), a failure is logged; past the end of
   the list the call returns *)
ExpireUnitsFor ==
  /\ callerPc = "expire_for"
  /\ \E recorded \in BOOLEAN :
       IF expIdx <= Len(units) /\ ExpireGoesOn(~recorded)
         THEN /\ unitStatus' = UnitExpire(unitStatus, units[expIdx], recorded)
              /\ expIdx' = expIdx + 1
              /\ UNCHANGED <<callerPc, hist>>
         ELSE /\ callerPc' = "idle"
              /\ expIdx' = 0
              /\ hist' = [hist EXCEPT !.expireReturned = TRUE]
              /\ UNCHANGED unitStatus
  /\ UNCHANGED runnerVars
  /\ UNCHANGED <<generator_type, max_num_concurrent_units, source, srcPos,
                 assignments, units, dbUnits, launched_units,
                 unlaunched_units, keep_launching_units, finished_generators,
                 did_create_assignments, did_launch_units, regPc, csa,
                 launchPc, gen>>

(* ---------------------- manage_generators (87-92) ---------------------- *)
ManageGeneratorsEager(finished, did_create) ==
  IF finished THEN "done" ELSE "next"

(* lines 88-89: where the loop goes from its test *)
ManageGeneratorsStep(finished, did_create) ==
  IF finished THEN "done" ELSE IF did_create THEN "next" ELSE "while"

(* lines 88-89 and the sleep of line 92: the loop ends when
   finished_generators is set, pulls a record when did_create_assignments
   is set, and sleeps otherwise *)
ManageGenerators ==
  /\ regPc = "while"
  /\ regPc' = ManageGeneratorsStep(finished_generators, did_create_assignments)
  /\ UNCHANGED runnerVars
  /\ UNCHANGED <<generator_type, max_num_concurrent_units, source, srcPos,
                 assignments, units, dbUnits, unitStatus, launched_units,
                 unlaunched_units, keep_launching_units, finished_generators,
                 did_create_assignments, did_launch_units, callerPc, expIdx,
                 csa, launchPc, gen, hist>>

(* ------------------ _try_generate_assignments (127-135) ---------------- *)
(* lines 130-133: next() gives a record, or raises StopIteration and
   did_create_assignments, which only this thread reads, is cleared *)
TryGenerateNext ==
  /\ regPc = "next"
  /\ IF srcPos < Len(source)
       THEN /\ srcPos' = srcPos + 1
            /\ CsaNewAssignment("reg", source[srcPos + 1])
            /\ UNCHANGED <<did_create_assignments, hist>>
       ELSE /\ regPc' = "stop_134"
            /\ did_create_assignments' = FALSE
            /\ hist' = [hist EXCEPT !.exhausted = TRUE]
            /\ UNCHANGED <<srcPos, csa, assignments, callerPc>>
  /\ UNCHANGED runnerVars
  /\ UNCHANGED <<generator_type, max_num_concurrent_units, source,
                 units, dbUnits, unitStatus, launched_units,
                 unlaunched_units, keep_launching_units, finished_generators,
                 did_launch_units, expIdx, launchPc, gen>>

(* line 134 *)
TryGenerateStop134 ==
  /\ regPc = "stop_134"
  /\ did_launch_units' = FALSE
  /\ regPc' = "stop_135"
  /\ UNCHANGED runnerVars
  /\ UNCHANGED <<generator_type, max_num_concurrent_units, source, srcPos,
                 assignments, units, dbUnits, unitStatus, launched_units,
                 unlaunched_units, keep_launching_units, finished_generators,
                 did_create_assignments, callerPc, expIdx, csa, launchPc, gen,
                 hist>>

(* line 135, then the sleep of line 92 *)
TryGenerateStop135 ==
  /\ regPc = "stop_135"
  /\ finished_generators' = TRUE
  /\ regPc' = "while"
  /\ UNCHANGED runnerVars
  /\ UNCHANGED <<generator_type, max_num_concurrent_units, source, srcPos,
                 assignments, units, dbUnits, unitStatus, launched_units,
                 unlaunched_units, keep_launching_units,
                 did_create_assignments, did_launch_units, callerPc, expIdx,
                 csa, launchPc, gen, hist>>

(* -------------------- _launch_limited_units (185-192) ------------------ *)
(* lines 187-188: the while test; a true test creates the generator *)
LaunchLimitedWhile ==
  /\ launchPc = "outer"
  /\ launchPc' = IF did_launch_units THEN "gen_while" ELSE "done"
  /\ gen' = NoGen
  /\ UNCHANGED runnerVars
  /\ UNCHANGED <<generator_type, max_num_concurrent_units, source, srcPos,
                 assignments, units, dbUnits, unitStatus, launched_units,
                 unlaunched_units, keep_launching_units, finished_generators,
                 did_create_assignments, did_launch_units, callerPc, expIdx,
                 regPc, csa, hist>>

(* lines 190-192, which follow at once when the generator has ended: in
   bounded mode the thread ends, in streaming mode it goes back to line 187 *)
GeneratorEnds ==
  IF generator_type = "none"
    THEN did_launch_units' = FALSE /\ launchPc' = "done"
    ELSE launchPc' = "outer" /\ UNCHANGED did_launch_units

(* line 189: unit.launch(url) on the unit just yielded, then the generator
   is resumed *)
LaunchLimitedLaunch ==
  /\ launchPc = "launch"
  /\ unitStatus' = UnitLaunch(unitStatus, gen.to_remove[Len(gen.to_remove)])
  /\ launchPc' = "gen_next"
  /\ UNCHANGED runnerVars
  /\ UNCHANGED <<generator_type, max_num_concurrent_units, source, srcPos,
                 assignments, units, dbUnits, launched_units,
                 unlaunched_units, keep_launching_units, finished_generators,
                 did_create_assignments, did_launch_units, callerPc, expIdx,
                 regPc, csa, gen, hist>>

(* ------------------------ generate_units (146-183) --------------------- *)
(* line 149: the while test; when it fails the generator ends *)
GenerateUnitsWhile ==
  /\ launchPc = "gen_while"
  /\ IF keep_launching_units
       THEN /\ launchPc' = "gen_reconcile"
            /\ gen' = [gen EXCEPT !.afterExpire = hist.expireReturned]
            /\ UNCHANGED did_launch_units
       ELSE GeneratorEnds /\ UNCHANGED gen
  /\ UNCHANGED runnerVars
  /\ UNCHANGED <<generator_type, max_num_concurrent_units, source, srcPos,
                 assignments, units, dbUnits, unitStatus, launched_units,
                 unlaunched_units, keep_launching_units, finished_generators,
                 did_create_assignments, callerPc, expIdx, regPc, csa, hist>>

UnitsToRemoveNone(launched, st) == {}

UnitsToRemoveEither(launched, st) ==
  {u \in Range(launched) : st[u] # "launched" \/ st[u] # "assigned"}

(* lines 150-159: the launched units that are neither LAUNCHED nor ASSIGNED *)
UnitsToRemove(launched, st) == {u \in Range(launched) : st[u] \notin RunningStatuses}

NumAvailUnitsIgnoringActive(cap, launched, unlaunched) ==
  IF cap = 0 THEN Len(unlaunched) ELSE cap

(* lines 161-166 *)
NumAvailUnits(cap, launched, unlaunched) ==
  IF cap = 0 THEN Len(unlaunched) ELSE cap - Len(launched)

(* lines 150-166: the reconciliation of launched_units, which only this
   thread touches, and the slot count *)
GenerateUnitsReconcile ==
  /\ launchPc = "gen_reconcile"
  /\ launched_units' = RemoveAll(launched_units,
                                 UnitsToRemove(launched_units, unitStatus))
  /\ gen' = [gen EXCEPT !.num_avail_units =
               NumAvailUnits(max_num_concurrent_units, launched_units',
                             unlaunched_units)]
  /\ launchPc' = "gen_iter"
  /\ UNCHANGED runnerVars
  /\ UNCHANGED <<generator_type, max_num_concurrent_units, source, srcPos,
                 assignments, units, dbUnits, unitStatus, unlaunched_units,
                 keep_launching_units, finished_generators,
                 did_create_assignments, did_launch_units, callerPc, expIdx,
                 regPc, csa, hist>>

(* lines 168-169: the iterator over self.unlaunched_units.items() is
   created; it remembers the size of the dict *)
GenerateUnitsIter ==
  /\ launchPc = "gen_iter"
  /\ gen' = [gen EXCEPT !.to_remove = <<>>, !.i = 0,
                        !.di_used = Len(unlaunched_units)]
  /\ launchPc' = "gen_next"
  /\ UNCHANGED runnerVars
  /\ UNCHANGED <<generator_type, max_num_concurrent_units, source, srcPos,
                 assignments, units, dbUnits, unitStatus, launched_units,
                 unlaunched_units, keep_launching_units, finished_generators,
                 did_create_assignments, did_launch_units, callerPc, expIdx,
                 regPc, csa, hist>>

(* a unit is admitted while its position is below the slot count *)
Admits(i, num_avail) == i < num_avail

(* lines 169-176: one step of the for loop.  The dict iterator raises
   RuntimeError when the dict has changed size since the iterator was made;
   nothing catches it and the launch thread ends.  Otherwise the next unit
   is admitted and yielded, or the loop ends. *)
GenerateUnitsNext ==
  /\ launchPc = "gen_next"
  /\ IF gen.di_used # Len(unlaunched_units)
       THEN /\ launchPc' = "crashed"
            /\ gen' = NoGen
            /\ UNCHANGED <<launched_units, hist>>
       ELSE IF gen.i < Len(unlaunched_units) /\ Admits(gen.i, gen.num_avail_units)
       THEN /\ launched_units' = DictSet(launched_units, unlaunched_units[gen.i + 1])
            /\ gen' = [gen EXCEPT !.to_remove = Append(@, unlaunched_units[gen.i + 1]),
                                  !.i = gen.i + 1]
            /\ hist' = [hist EXCEPT !.yielded = Append(@, unlaunched_units[gen.i + 1])]
            /\ launchPc' = "launch"
       ELSE /\ launchPc' = "gen_pop"
            /\ UNCHANGED <<launched_units, gen, hist>>
  /\ UNCHANGED runnerVars
  /\ UNCHANGED <<generator_type, max_num_concurrent_units, source, srcPos,
                 assignments, units, dbUnits, unitStatus, unlaunched_units,
                 keep_launching_units, finished_generators,
                 did_create_assignments, did_launch_units, callerPc, expIdx,
                 regPc, csa>>

PopNothing(unlaunched, to_remove) == unlaunched

(* lines 177-179: the admitted units leave unlaunched_units, under the lock *)
PopAdmitted(unlaunched, to_remove) == RemoveAll(unlaunched, Range(to_remove))

GeneratorBreaksAlways(unlaunched) == TRUE

(* lines 182-183: the test that ends the generator after the sleep *)
GeneratorBreaks(unlaunched) == unlaunched = <<>>

(* lines 177-183: the admitted units are popped; after the sleep the
   generator ends when nothing is pending, and starts the next cycle
   otherwise.  The locals of the cycle are dead from here on. *)
GenerateUnitsPop ==
  /\ launchPc = "gen_pop"
  /\ unlaunched_units' = PopAdmitted(unlaunched_units, gen.to_remove)
  /\ gen' = NoGen
  /\ IF GeneratorBreaks(unlaunched_units')
       THEN GeneratorEnds
       ELSE launchPc' = "gen_while" /\ UNCHANGED did_launch_units
  /\ UNCHANGED runnerVars
  /\ UNCHANGED <<generator_type, max_num_concurrent_units, source, srcPos,
                 assignments, units, dbUnits, unitStatus, launched_units,
                 keep_launching_units, finished_generators,
                 did_create_assignments, callerPc, expIdx, regPc, csa, hist>>

(* ------------------- progress of a unit at the provider ---------------- *)
(* a worker accepts a launched unit *)
UnitAssigned(u) ==
  /\ u \in 1..Len(unitStatus)
  /\ unitStatus[u] = "launched"
  /\ unitStatus' = [unitStatus EXCEPT ![u] = "assigned"]
  /\ UNCHANGED runnerVars
  /\ UNCHANGED <<generator_type, max_num_concurrent_units, source, srcPos,
                 assignments, units, dbUnits, launched_units,
                 unlaunched_units, keep_launching_units, finished_generators,
                 did_create_assignments, did_launch_units, callerPc, expIdx,
                 regPc, csa, launchPc, gen, hist>>

(* the worker's agent finishes the unit *)
UnitCompleted(u) ==
  /\ u \in 1..Len(unitStatus)
  /\ unitStatus[u] = "assigned"
  /\ unitStatus' = [unitStatus EXCEPT ![u] = "completed"]
  /\ UNCHANGED runnerVars
  /\ UNCHANGED <<generator_type, max_num_concurrent_units, source, srcPos,
                 assignments, units, dbUnits, launched_units,
                 unlaunched_units, keep_launching_units, finished_generators,
                 did_create_assignments, did_launch_units, callerPc, expIdx,
                 regPc, csa, launchPc, gen, hist>>

(* ======================= TaskRunner (blueprint.py) ===================== *)
Kinds == {"unit", "assignment", "onboarding"}
Entities == 1..NumEntities
Agents == 1..NumAgents
RunnerContexts == 1..NumContexts

NoCall == [pc |-> "idle", kind |-> "unit", e |-> 0, outcome |-> "none",
           fault |-> 0, j |-> 0, inserted |-> FALSE, runs |-> 0,
           cleanups |-> 0, markDoneRaised |-> FALSE, handlerRaised |-> FALSE,
           result |-> "none"]

(* TaskRunner.__init__, lines 101-107, and the entities handed to it *)
RunnerInit ==
  /\ running_units = {}
  /\ running_assignments = {}
  /\ running_onboardings = {}
  /\ agentStatus = [e \in Entities |-> [a \in Agents |-> "in task"]]
  /\ assignedAgent = Entities
  /\ expiredAgentUnits = {}
  /\ doneOnboardings = {}
  /\ call = <<>>

(* the registry of a launch kind *)
Running(kind) ==
  CASE kind = "unit" -> running_units
    [] kind = "assignment" -> running_assignments
    [] kind = "onboarding" -> running_onboardings

SetRunning(kind, S) ==
  /\ running_units' = IF kind = "unit" THEN S ELSE running_units
  /\ running_assignments' = IF kind = "assignment" THEN S ELSE running_assignments
  /\ running_onboardings' = IF kind = "onboarding" THEN S ELSE running_onboardings

(* the frame of a call that has ended: the entity and the locals are gone,
   what the call did stays on record *)
Ended(f, res) ==
  [NoCall EXCEPT !.pc = "ended", !.result = res, !.kind = f.kind,
                 !.outcome = f.outcome,
                 !.inserted = f.inserted, !.runs = f.runs,
                 !.cleanups = f.cleanups, !.markDoneRaised = f.markDoneRaised,
                 !.handlerRaised = f.handlerRaised]

(* launch_onboarding / launch_unit / launch_assignment are entered; each
   launch runs in an execution context of its own, numbered in the order of
   the calls.  The three methods share no state (a registry each, lines
   104-106, and the records of units, of agents and of onboarding agents),
   so their calls commute and the contexts of one behaviour all call the
   same method. *)
LaunchCall(kind, e) ==
  /\ Len(call) < NumContexts
  /\ \A d \in DOMAIN call : call[d].kind = kind
  /\ call' = Append(call, [NoCall EXCEPT !.pc = "guard", !.kind = kind,
                                         !.e = e])
  /\ UNCHANGED <<running_units, running_assignments, running_onboardings,
                 agentStatus, assignedAgent, expiredAgentUnits,
                 doneOnboardings>>
  /\ UNCHANGED launcherVars

NeverRunning(kind, e, registry) == FALSE

(* lines 133, 159, 188: the test of the re-entrancy guard *)
AlreadyRunning(kind, e, registry) == e \in registry

(* lines 133-135, 159-161, 188-190 *)
LaunchGuard(c) ==
  /\ c \in DOMAIN call
  /\ call[c].pc = "guard"
  /\ call' = [call EXCEPT ![c] =
                IF AlreadyRunning(call[c].kind, call[c].e, Running(call[c].kind))
                  THEN Ended(call[c], "returned")
                  ELSE [call[c] EXCEPT !.pc = "insert"]]
  /\ UNCHANGED <<running_units, running_assignments, running_onboardings,
                 agentStatus, assignedAgent, expiredAgentUnits,
                 doneOnboardings>>
  /\ UNCHANGED launcherVars

(* lines 140, 166, 195 *)
LaunchInsert(c) ==
  /\ c \in DOMAIN call
  /\ call[c].pc = "insert"
  /\ SetRunning(call[c].kind, Running(call[c].kind) \cup {call[c].e})
  /\ call' = [call EXCEPT ![c].pc = "run", ![c].inserted = TRUE]
  /\ UNCHANGED <<agentStatus, assignedAgent, expiredAgentUnits,
                 doneOnboardings>>
  /\ UNCHANGED launcherVars

AfterRunNoCleanupOnOther(kind, outcome) ==
  CASE outcome = "ok" -> IF kind = "onboarding" THEN "mark_done" ELSE "del"
    [] outcome = "recoverable" ->
         (CASE kind = "unit" -> "clear_agent"
            [] kind = "assignment" -> "handler"
            [] kind = "onboarding" -> "cleanup")
    [] outcome = "other" -> "del"

(* where the try statement goes after run_* has ended with an outcome:
   lines 143-151, 168-178, 197-215 *)
AfterRun(kind, outcome) ==
  CASE outcome = "ok" -> IF kind = "onboarding" THEN "mark_done" ELSE "del"
    [] outcome = "recoverable" ->
         (CASE kind = "unit" -> "clear_agent"
            [] kind = "assignment" -> "handler"
            [] kind = "onboarding" -> "cleanup")
    [] outcome = "other" -> "cleanup"

(* lines 142, 168, 197: run_* returns, raises AgentReturnedError,
   AgentTimeoutError or AgentDisconnectedError (naming an agent), or raises
   anything else *)
LaunchRun(c, outcome, fault) ==
  /\ c \in DOMAIN call
  /\ call[c].pc = "run"
  /\ outcome \in {"ok", "recoverable", "other"}
  /\ fault \in (IF outcome = "recoverable" /\ call[c].kind = "assignment"
                  THEN Agents ELSE {0})
  /\ call' = [call EXCEPT ![c].pc = AfterRun(call[c].kind, outcome),
                          ![c].outcome = outcome,
                          ![c].fault = fault,
                          ![c].j = 1,
                          ![c].runs = call[c].runs + 1]
  /\ UNCHANGED <<running_units, running_assignments, running_onboardings,
                 agentStatus, assignedAgent, expiredAgentUnits,
                 doneOnboardings>>
  /\ UNCHANGED launcherVars

(* line 143: onboarding_agent.mark_done(), inside the try statement: what
   it raises is caught by one of the except clauses, which both go to
   cleanup_onboarding *)
LaunchMarkDone(c, ok) ==
  /\ c \in DOMAIN call
  /\ call[c].pc = "mark_done"
  /\ IF ok
       THEN /\ doneOnboardings' = doneOnboardings \cup {call[c].e}
            /\ call' = [call EXCEPT ![c].pc = "del"]
       ELSE /\ call' = [call EXCEPT ![c].pc = "cleanup",
                                     ![c].markDoneRaised = TRUE]
            /\ UNCHANGED doneOnboardings
  /\ UNCHANGED <<running_units, running_assignments, running_onboardings,
                 agentStatus, assignedAgent, expiredAgentUnits>>
  /\ UNCHANGED launcherVars

(* line 171: unit.clear_assigned_agent(), inside the except clause *)
LaunchClearAgent(c, ok) ==
  /\ c \in DOMAIN call
  /\ call[c].pc = "clear_agent"
  /\ IF ok
       THEN /\ assignedAgent' = assignedAgent \ {call[c].e}
            /\ call' = [call EXCEPT ![c].pc = "cleanup"]
       ELSE /\ call' = [call EXCEPT ![c] =
                          Ended([call[c] EXCEPT !.handlerRaised = TRUE], "raised")]
            /\ UNCHANGED assignedAgent
  /\ UNCHANGED <<running_units, running_assignments, running_onboardings,
                 agentStatus, expiredAgentUnits, doneOnboardings>>
  /\ UNCHANGED launcherVars

AgentStateCompleteWithoutCompleted ==
  {"disconnect", "timeout", "expired", "returned"}

(* AgentState.complete(), lines 365-374: the final agent statuses, "which
   cannot be updated" *)
AgentStateComplete ==
  {"completed", "disconnect", "timeout", "expired", "returned"}

(* Agent.update_status(new): a final status is kept (the status model:
   once in a final status, no further transition is permitted) *)
UpdateStatus(cur, new) == IF cur \in AgentStateComplete THEN cur ELSE new

(* an agent of an assignment that is being run completes its part *)
AgentCompletes(e, j) ==
  /\ e \in running_assignments
  /\ agentStatus[e][j] = "in task"
  /\ agentStatus' = [agentStatus EXCEPT ![e][j] = "completed"]
  /\ UNCHANGED <<running_units, running_assignments, running_onboardings,
                 assignedAgent, expiredAgentUnits, doneOnboardings, call>>
  /\ UNCHANGED launcherVars

(* lines 202-208: one agent of the for loop of the except clause *)
LaunchHandlerAgent(c, ok) ==
  /\ c \in DOMAIN call
  /\ call[c].pc = "handler"
  /\ LET f == call[c]
         last == f.j = NumAgents
     IN IF ~ok
          THEN /\ call' = [call EXCEPT ![c] =
                             Ended([f EXCEPT !.handlerRaised = TRUE], "raised")]
               /\ UNCHANGED <<agentStatus, expiredAgentUnits>>
          ELSE /\ call' = [call EXCEPT ![c].j = f.j + 1,
                                       ![c].pc = IF last THEN "cleanup" ELSE "handler"]
               /\ IF f.j # f.fault
                    THEN /\ agentStatus' = [agentStatus EXCEPT ![f.e][f.j] =
                                              UpdateStatus(@, "partner disconnect")]
                         /\ UNCHANGED expiredAgentUnits
                    ELSE /\ expiredAgentUnits' = expiredAgentUnits \cup {<<f.e, f.j>>}
                         /\ UNCHANGED agentStatus
  /\ UNCHANGED <<running_units, running_assignments, running_onboardings,
                 assignedAgent, doneOnboardings>>
  /\ UNCHANGED launcherVars

(* lines 145, 151, 172, 178, 209, 215: cleanup_*, which raises
   NotImplementedError unless the task type overrides it (lines 257-302) *)
LaunchCleanup(c, ok) ==
  /\ c \in DOMAIN call
  /\ call[c].pc = "cleanup"
  /\ call' = [call EXCEPT ![c] =
                IF ok THEN [call[c] EXCEPT !.pc = "del",
                                           !.cleanups = call[c].cleanups + 1]
                      ELSE Ended([call[c] EXCEPT !.cleanups = call[c].cleanups + 1],
                                 "raised")]
  /\ UNCHANGED <<running_units, running_assignments, running_onboardings,
                 agentStatus, assignedAgent, expiredAgentUnits,
                 doneOnboardings>>
  /\ UNCHANGED launcherVars

(* lines 152, 179, 216: del self.running_*[id]; KeyError when the key is
   not there *)
LaunchDel(c) ==
  /\ c \in DOMAIN call
  /\ call[c].pc = "del"
  /\ IF call[c].e \in Running(call[c].kind)
       THEN /\ SetRunning(call[c].kind, Running(call[c].kind) \ {call[c].e})
            /\ call' = [call EXCEPT ![c] = Ended(call[c], "returned")]
       ELSE /\ call' = [call EXCEPT ![c] = Ended(call[c], "raised")]
            /\ UNCHANGED <<running_units, running_assignments,
                           running_onboardings>>
  /\ UNCHANGED <<agentStatus, assignedAgent, expiredAgentUnits,
                 doneOnboardings>>
  /\ UNCHANGED launcherVars

(* ============================ specifications =========================== *)
Init == LauncherInit /\ RunnerInit

Next ==
  \/ \E t \in Contexts : CsaNewUnit(t)
  \/ \E t \in Contexts : CsaInsert(t)
  \/ \E t \in Contexts : CsaKeep(t)
  \/ CreateAssignmentsCall
  \/ CreateAssignments144
  \/ CreateAssignmentsFor
  \/ LaunchUnitsCall
  \/ ExpireUnitsCall
  \/ ExpireUnits203
  \/ ExpireUnitsFor
  \/ ManageGenerators
  \/ TryGenerateNext
  \/ TryGenerateStop134
  \/ TryGenerateStop135
  \/ LaunchLimitedWhile
  \/ LaunchLimitedLaunch
  \/ GenerateUnitsWhile
  \/ GenerateUnitsReconcile
  \/ GenerateUnitsIter
  \/ GenerateUnitsNext
  \/ GenerateUnitsPop
  \/ \E u \in 1..MaxUnits : UnitAssigned(u)
  \/ \E u \in 1..MaxUnits : UnitCompleted(u)

Spec == Init /\ [][Next]_vars

(* the execution driver, called from NumContexts execution contexts *)
RunnerInitAll ==
  /\ LauncherInit
  /\ generator_type = "none" /\ max_num_concurrent_units = 0 /\ source = <<>>
  /\ RunnerInit

RunnerNext ==
  \/ \E k \in Kinds, e \in Entities : LaunchCall(k, e)
  \/ \E c \in RunnerContexts : LaunchGuard(c)
  \/ \E c \in RunnerContexts : LaunchInsert(c)
  \/ \E c \in RunnerContexts, o \in {"ok", "recoverable", "other"},
        a \in Agents \cup {0} : LaunchRun(c, o, a)
  \/ \E c \in RunnerContexts, ok \in BOOLEAN : LaunchMarkDone(c, ok)
  \/ \E c \in RunnerContexts, ok \in BOOLEAN : LaunchClearAgent(c, ok)
  \/ \E c \in RunnerContexts, ok \in BOOLEAN : LaunchHandlerAgent(c, ok)
  \/ \E c \in RunnerContexts, ok \in BOOLEAN : LaunchCleanup(c, ok)
  \/ \E c \in RunnerContexts : LaunchDel(c)

RunnerSpec == RunnerInitAll /\ [][RunnerNext]_vars

(* launch_assignment alone, called from NumContexts execution contexts,
   with agents that complete their part while their assignment is run.
   The calls for different assignments touch different agents, so the
   contexts all launch one assignment. *)
AssignmentNext ==
  \/ LaunchCall("assignment", 1)
  \/ \E c \in RunnerContexts : LaunchGuard(c)
  \/ \E c \in RunnerContexts : LaunchInsert(c)
  \/ \E c \in RunnerContexts, o \in {"ok", "recoverable", "other"},
        a \in Agents \cup {0} : LaunchRun(c, o, a)
  \/ \E c \in RunnerContexts, ok \in BOOLEAN : LaunchHandlerAgent(c, ok)
  \/ \E c \in RunnerContexts, ok \in BOOLEAN : LaunchCleanup(c, ok)
  \/ \E c \in RunnerContexts : LaunchDel(c)
  \/ \E j \in Agents : AgentCompletes(1, j)

AssignmentSpec == RunnerInitAll /\ [][AssignmentNext]_vars

(* bounded mode (a data source that is not a generator): no registration
   thread.  The launch thread, once started, keeps being scheduled, and a
   unit that holds a slot moves on at the provider. *)
BoundedInit == Init /\ generator_type = "none"

LaunchThread ==
  \/ LaunchLimitedWhile
  \/ LaunchLimitedLaunch
  \/ GenerateUnitsWhile
  \/ GenerateUnitsReconcile
  \/ GenerateUnitsIter
  \/ GenerateUnitsNext
  \/ GenerateUnitsPop

BoundedNext ==
  \/ CsaNewUnit("caller")
  \/ CsaInsert("caller")
  \/ CsaKeep("caller")
  \/ CreateAssignmentsCall
  \/ CreateAssignmentsFor
  \/ LaunchUnitsCall
  \/ ExpireUnitsCall
  \/ ExpireUnits203
  \/ ExpireUnitsFor
  \/ LaunchThread
  \/ \E u \in 1..MaxUnits : UnitAssigned(u)
  \/ \E u \in 1..MaxUnits : UnitCompleted(u)

BoundedSpec == BoundedInit /\ [][BoundedNext]_vars

BoundedFairSpec ==
  /\ BoundedInit
  /\ [][BoundedNext]_vars
  /\ WF_vars(LaunchThread)
  /\ \A u \in 1..MaxUnits : WF_vars(UnitAssigned(u)) /\ WF_vars(UnitCompleted(u))

(* both modes, with the threads scheduled: the registration thread and the
   launch thread keep running once started, and expire_units, a synchronous
   call, runs to its end *)
RegistrationThread ==
  \/ ManageGenerators
  \/ TryGenerateNext
  \/ TryGenerateStop134
  \/ TryGenerateStop135
  \/ CsaNewUnit("reg")
  \/ CsaInsert("reg")
  \/ CsaKeep("reg")

FairSpec ==
  /\ Init
  /\ [][Next]_vars
  /\ WF_vars(LaunchThread)
  /\ WF_vars(RegistrationThread)
  /\ WF_vars(ExpireUnits203 \/ ExpireUnitsFor)

(* streaming mode, the registration side alone: the caller's
   create_assignments and expire_units and the registration thread, which
   keeps being scheduled.  The launch thread writes nothing that the
   registration thread reads. *)
StreamingInit == Init /\ generator_type = "assignment"

RegistrationNext ==
  \/ CreateAssignmentsCall
  \/ CreateAssignments144
  \/ ExpireUnitsCall
  \/ ExpireUnits203
  \/ ExpireUnitsFor
  \/ RegistrationThread

RegistrationFairSpec ==
  /\ StreamingInit
  /\ [][RegistrationNext]_vars
  /\ WF_vars(RegistrationThread)

(* both modes and all the threads, for a launcher constructed with the
   largest cap, under which units wait in unlaunched_units while others are
   active and every admission cycle is throttled *)
ThrottledInit == Init /\ max_num_concurrent_units = MaxCap

ThrottledSpec == ThrottledInit /\ [][Next]_vars

(* both modes, with a database whose new_unit may fail *)
FaultyNext ==
  \/ Next
  \/ \E t \in Contexts : CsaNewUnitFails(t)

FaultySpec == Init /\ [][FaultyNext]_vars

(* =============================== claims ================================ *)
NoDuplicates(s) == \A i, j \in 1..Len(s) : i # j => s[i] # s[j]

(* C1: with a concurrency cap C > 0 the Active set (launched_units) never
   holds more than C units, in any state, the states in the middle of an
   admission cycle included. *)
C1_CapRespected ==
  max_num_concurrent_units > 0 => Len(launched_units) <= max_num_concurrent_units

(* a unit has just been yielded, the Active set is full and a unit waits *)
C1_Witness ==
  /\ max_num_concurrent_units > 0
  /\ launchPc = "launch"
  /\ Len(launched_units) = max_num_concurrent_units
  /\ Len(unlaunched_units) > Len(gen.to_remove)

(* C2: no unit is a key of both unlaunched_units and launched_units, in any
   state.  generate_units puts a unit into launched_units at line 172 and
   takes it out of unlaunched_units only at line 179. *)
C2_PendingActiveDisjoint ==
  Range(unlaunched_units) \cap Range(launched_units) = {}

(* C3: no unit is yielded (and so launched) twice over the whole run, and a
   unit that has been admitted is never in unlaunched_units again once the
   cycle that admitted it has popped it: an admitted unit that is pending
   awaits the pop of its cycle, or the launch thread has died in that cycle
   and launches nothing any more.  Every yield is followed by exactly one
   unit.launch. *)
C3_LaunchedAtMostOnce ==
  /\ NoDuplicates(hist.yielded)
  /\ \A u \in Range(hist.yielded) :
       u \in Range(unlaunched_units)
         => (u \in Range(gen.to_remove) \/ launchPc = "crashed")

(* in streaming mode a second unit has been yielded and awaits its launch,
   after the cycle that yielded the first has popped it *)
C3_Witness ==
  /\ generator_type = "assignment"
  /\ launchPc = "launch"
  /\ Len(hist.yielded) >= 2
  /\ hist.yielded[1] \notin Range(unlaunched_units)
  /\ hist.yielded[Len(hist.yielded)] \in Range(unlaunched_units)

(* C4: in bounded mode, when create_assignments has returned before
   launch_units is called and expire_units is never called, every unit that
   is pending is eventually yielded for launch, for every cap >= 0
   (the units that hold a slot eventually leave the launched and assigned
   statuses: the fairness of BoundedFairSpec). *)
C4_EveryUnitEventuallyYielded ==
  \A u \in 1..MaxUnits :
    (/\ hist.createReturned
     /\ hist.launchCalled
     /\ ~hist.launchBeforeCreateReturned
     /\ u \in Range(unlaunched_units))
      ~> (u \in Range(hist.yielded) \/ hist.expireCalled)

(* under a cap of 1 two units were registered, then launched one after the
   other, and the launch thread has ended *)
C4_Witness ==
  /\ generator_type = "none"
  /\ max_num_concurrent_units = 1
  /\ hist.createReturned /\ ~hist.launchBeforeCreateReturned
  /\ ~hist.expireCalled
  /\ Len(units) >= 2
  /\ Len(hist.yielded) = Len(units)
  /\ launchPc = "done"

(* C5: once expire_units has returned, every unit created by this launcher
   is in a terminal status, in every interleaving with the registration
   thread and the launch thread and also when unit.expire() raised. *)
C5_AllTerminalAfterExpire ==
  hist.expireReturned => \A u \in Range(units) : unitStatus[u] \in TerminalStatuses

(* ----------------------------- TaskRunner ------------------------------ *)
(* C6: a launch_* call for an entity that is already a key of its running
   registry returns without calling run_* or cleanup_* and leaves the
   registries unchanged. *)
C6_GuardedLaunchIsNoOp ==
  [][\A c \in DOMAIN call :
       (/\ call[c].pc = "guard"
        /\ call[c].e \in Running(call[c].kind)
        /\ call'[c] # call[c])
       => (/\ call'[c].pc = "ended"
           /\ call'[c].result = "returned"
           /\ call'[c].runs = 0
           /\ call'[c].cleanups = 0
           /\ UNCHANGED <<running_units, running_assignments,
                          running_onboardings>>)]_vars

(* a call has returned at the guard while another context runs the entity *)
C6_Witness ==
  \E c, d \in DOMAIN call :
    /\ c # d
    /\ call[c].pc = "ended" /\ ~call[c].inserted /\ call[c].result = "returned"
    /\ call[c].runs = 0 /\ call[c].cleanups = 0
    /\ call[d].pc = "run" /\ call[d].kind = call[c].kind
    /\ call[d].e \in Running(call[d].kind)

(* C7: a launch_* call that inserted its entity into the running registry
   has removed it again when the call ends, on every exit path. *)
C7_RegistryEntryRemoved ==
  [][\A c \in DOMAIN call :
       (call[c].pc # "ended" /\ call'[c].pc = "ended" /\ call[c].inserted)
       => call[c].e \notin Running(call[c].kind)']_vars

(* C8: every launch_* call returns normally; no failure of run_*, of
   cleanup_* or of the fault handling leaves the call as an exception. *)
C8_LaunchReturnsNormally ==
  \A c \in DOMAIN call : call[c].pc = "ended" => call[c].result = "returned"

(* C9, as claimed: a launch attempt that passed the guard has invoked
   cleanup_* exactly once when it ends, whatever the outcome of run_*. *)
C9_CleanupExactlyOnce ==
  \A c \in DOMAIN call :
    (call[c].pc = "ended" /\ call[c].inserted) => call[c].cleanups = 1

(* C9, amended: a launch attempt that passed the guard invokes cleanup_*
   at most once: not at all when run_* (and, for onboarding, mark_done)
   returned normally or when a step of the fault handling before cleanup_*
   raised, and exactly once otherwise. *)
C9_CleanupOnceOnFault ==
  \A c \in DOMAIN call :
    (call[c].pc = "ended" /\ call[c].inserted)
    => call[c].cleanups =
         IF \/ (call[c].outcome = "ok" /\ ~call[c].markDoneRaised)
            \/ call[c].handlerRaised
           THEN 0 ELSE 1

(* launch_assignment has returned after a recoverable fault, one cleanup *)
C9_Witness ==
  \E c \in DOMAIN call :
    /\ call[c].pc = "ended" /\ call[c].inserted
    /\ call[c].kind = "assignment" /\ call[c].outcome = "recoverable"
    /\ call[c].cleanups = 1 /\ call[c].result = "returned"

(* ------------------------- create_assignments -------------------------- *)
RECURSIVE UnitRowsOf(_, _, _)
(* the unit rows of records i.. of a source, in record and payload order *)
UnitRowsOf(src, i, idx) ==
  IF i > Len(src) THEN <<>>
  ELSE IF idx >= src[i] THEN UnitRowsOf(src, i + 1, 0)
       ELSE <<[asg |-> i, idx |-> idx]>> \o UnitRowsOf(src, i, idx + 1)

Materialized ==
  /\ assignments = [i \in 1..Len(source) |-> i]
  /\ dbUnits = UnitRowsOf(source, 1, 0)
  /\ units = [u \in 1..Len(dbUnits) |-> u]

CreateAssignmentsReturns == callerPc = "create_for" /\ callerPc' = "idle"

(* C10, as claimed: in bounded mode create_assignments creates one
   assignment per record, in record order, and for a record with k payloads
   k units with indices 0..k-1 of that assignment; when the call returns
   all these units are in self.units and in unlaunched_units. *)
C10_ExactMaterialization ==
  [][CreateAssignmentsReturns
       => (Materialized /\ Range(units) \subseteq Range(unlaunched_units))']_vars

(* C10, amended: ... when the call returns all these units are in
   self.units, and each is in unlaunched_units unless a launch thread
   started before the call returned has already taken it out after
   yielding it. *)
C10_MaterializedPendingOrYielded ==
  [][CreateAssignmentsReturns
       => (/\ Materialized
           /\ Range(units) \subseteq Range(unlaunched_units) \cup Range(hist.yielded)
           /\ (~hist.launchCalled
                 => Range(units) \subseteq Range(unlaunched_units)))']_vars

(* create_assignments has returned for a source of two records, the units
   of both are pending *)
C10_Witness ==
  /\ generator_type = "none"
  /\ hist.createReturned /\ callerPc = "idle"
  /\ Len(source) = 2 /\ Len(units) = 2 /\ Len(assignments) = 2
  /\ unlaunched_units = units

(* ------------------------ the launch driver loop ------------------------ *)
(* C11: in streaming mode, when the loop of _launch_limited_units has
   exited (its test of line 187 failed), the registration thread has
   observed the exhaustion of the source and unlaunched_units is empty. *)
C11_NoEarlyStop ==
  (generator_type = "assignment" /\ launchPc = "done")
    => (hist.exhausted /\ unlaunched_units = <<>>)

LaunchLoopEnded == launchPc \in {"done", "crashed"}

(* C12: in streaming mode, once the registration thread has ended on the
   exhaustion of the source and unlaunched_units is empty, a launch thread
   that has been started eventually ends, also when launch_units was
   called after the exhaustion (runs in which expire_units is called are
   left aside). *)
C12_LaunchLoopTerminates ==
  (/\ generator_type = "assignment"
   /\ hist.exhausted /\ regPc = "done"
   /\ unlaunched_units = <<>>
   /\ hist.launchCalled)
    ~> (LaunchLoopEnded \/ hist.expireCalled)

(* C13: after expire_units has been called the registration thread and the
   launch thread (when one was started) both eventually end, in bounded
   and in streaming mode. *)
C13_LoopsHaltAfterExpire ==
  hist.expireCalled
    ~> (/\ regPc \in {"off", "done"}
        /\ (hist.launchCalled => LaunchLoopEnded))

(* C14: the flags set by expire_units stay in effect.  An admission cycle
   of generate_units that begins (passes line 149) after expire_units has
   returned admits no unit, and an iteration of manage_generators that
   begins (line 88) after expire_units has returned pulls no record. *)
C14_FlagsStayInEffect ==
  /\ [](gen.afterExpire => gen.to_remove = <<>>)
  /\ [][(hist.expireReturned /\ regPc = "while") => regPc' # "next"]_vars

(* -------------------------------- expire_units -------------------------- *)
(* C15: expire_units calls unit.expire() once on every unit of self.units,
   in creation order, whatever the status of the unit and whichever dict
   holds it, and goes on after a call that raised: every step of the loop
   moves to the next position of the list, and the call returns (normally)
   only past the end of the list. *)
C15_ExpiresEveryUnitOnce ==
  [][callerPc = "expire_for"
       => \/ /\ expIdx <= Len(units)
             /\ callerPc' = "expire_for"
             /\ expIdx' \in {expIdx, expIdx + 1}
          \/ /\ expIdx > Len(units)
             /\ \/ UNCHANGED <<callerPc, expIdx>>
                \/ callerPc' = "idle" /\ hist'.expireReturned]_vars

(* expire_units has returned; the expire of the first unit failed and the
   second unit was expired all the same *)
C15_Witness ==
  /\ hist.expireReturned
  /\ Len(units) >= 2
  /\ unitStatus[units[1]] # "expired"
  /\ unitStatus[units[2]] = "expired"

(* ------------------------- Pending and Active --------------------------- *)
(* a unit that db.new_unit has created and that line 124 has yet to insert *)
BeingRegistered(u) == \E t \in Contexts : csa[t].pc = "insert" /\ csa[t].uid = u

(* C16: every unit that has been created and whose status is not terminal
   is a key of exactly one of unlaunched_units and launched_units, in every
   state (a unit in the middle of its registration is left aside). *)
C16_NonTerminalInExactlyOne ==
  \A u \in 1..Len(unitStatus) :
    (unitStatus[u] \notin TerminalStatuses /\ ~BeingRegistered(u))
      => (u \in Range(unlaunched_units)) # (u \in Range(launched_units))

(* ---------------------- _create_single_assignment ----------------------- *)
UnitsOfAssignment(db, a) == {u \in 1..Len(db) : db[u].asg = a}

(* C17: registering a record is all-or-nothing.  When db.new_unit fails
   part-way, the assignment is not in self.assignments and no unit of it
   is in the db, in self.units or in unlaunched_units afterwards; when
   _create_single_assignment returns, the assignment and all its units
   exist. *)
C17_AllOrNothing ==
  [][\A t \in Contexts :
       /\ CsaNewUnitFails(t)
            => /\ csa[t].asg \notin Range(assignments')
               /\ UnitsOfAssignment(dbUnits', csa[t].asg) = {}
       /\ (csa[t].pc = "keep" /\ csa'[t].pc = "none")
            => /\ csa[t].asg \in Range(assignments')
               /\ Cardinality(UnitsOfAssignment(dbUnits', csa[t].asg)) = csa[t].count
               /\ UnitsOfAssignment(dbUnits', csa[t].asg) \subseteq Range(units')]_vars

(* ------------------------- streaming registration ----------------------- *)
(* C18: in streaming mode no assignment is registered before
   create_assignments is called (did_create_assignments is set by that call
   and cleared only at exhaustion); every pull of a record registers one
   assignment; once the registration thread has observed the exhaustion of
   the source no assignment is registered any more, also when
   create_assignments is called again, and the thread ends. *)
C18_IdempotentExhaustion ==
  /\ []((~did_create_assignments /\ ~hist.exhausted) => assignments = <<>>)
  /\ [](Len(assignments) = srcPos)
  /\ [][hist.exhausted => assignments' = assignments]_vars
  /\ (hist.exhausted ~> regPc = "done")

(* the source is exhausted, its records are registered, the registration
   thread has ended and create_assignments has been called again *)
C18_Witness ==
  /\ generator_type = "assignment"
  /\ hist.exhausted /\ regPc = "done"
  /\ Len(source) >= 1 /\ Len(assignments) = Len(source)
  /\ did_create_assignments

(* ----------------------------- unlimited mode --------------------------- *)
(* C19: with max_num_concurrent_units = 0 an admission cycle is left, at the
   pop of lines 177-179 or otherwise, only when every unit that was in
   unlaunched_units at the slot count of lines 161-166 has been put into
   launched_units and yielded in that cycle. *)
C19_UnlimitedAdmitsAllPending ==
  [][(max_num_concurrent_units = 0 /\ launchPc = "gen_next"
        /\ launchPc' \notin {"gen_next", "launch"})
       => /\ gen.to_remove = SubSeq(unlaunched_units, 1, gen.num_avail_units)
          /\ Range(gen.to_remove) \subseteq Range(launched_units)]_vars

(* ------------------------------ FIFO admission -------------------------- *)
Increasing(q) == \A a, b \in DOMAIN q : a < b => q[a] < q[b]

Smaller(a, b) == IF a < b THEN a ELSE b

(* C20: units are inserted into unlaunched_units in the order of their
   creation and yielded in that order, within a cycle and across cycles:
   every yield takes the earliest unit of unlaunched_units not yet yielded
   in the cycle; and a cycle is left only when it has admitted
   min(num_avail_units, len(unlaunched_units)) units. *)
C20_FifoAdmission ==
  /\ [](Increasing(unlaunched_units) /\ Increasing(hist.yielded))
  /\ [][hist.yielded' # hist.yielded
          => \E k \in DOMAIN unlaunched_units :
               /\ unlaunched_units[k] = hist.yielded'[Len(hist.yielded')]
               /\ SubSeq(unlaunched_units, 1, k - 1) = gen.to_remove]_vars
  /\ [][(launchPc = "gen_next" /\ launchPc' \notin {"gen_next", "launch"})
          => Len(gen.to_remove)
               = Smaller(gen.num_avail_units, Len(unlaunched_units))]_vars

(* --------------------- exclusion on unlaunched_units -------------------- *)
(* the launch thread is between its reading of unlaunched_units (the slot
   count of lines 161-166, the iteration of lines 168-176) and the pop of
   lines 177-179 *)
InAdmissionCycle == launchPc \in {"gen_iter", "gen_next", "launch", "gen_pop"}

(* C21: no insertion into unlaunched_units (line 124) takes place while the
   launch thread is between its reading of unlaunched_units and its removal
   of the admitted units. *)
C21_InsertExcludedFromCycle ==
  [][InAdmissionCycle => Len(unlaunched_units') <= Len(unlaunched_units)]_vars

(* ------------------- launches of one entity, interleaved ---------------- *)
(* C22: when launch_* is called for the same entity from two execution
   contexts, run_* is not under way in both at once, and no call fails at
   the del of lines 152, 179, 216. *)
C22_OneRunPerEntity ==
  /\ [](\A c, d \in DOMAIN call :
          (c # d /\ call[c].pc = "run" /\ call[d].pc = "run"
                 /\ call[c].kind = call[d].kind)
          => call[c].e # call[d].e)
  /\ [][\A c \in DOMAIN call :
          (call[c].pc = "del" /\ call'[c].pc = "ended")
          => call'[c].result = "returned"]_vars

(* ---------------------- fault handling of assignments ------------------- *)
(* C23: a step of a launch_assignment call changes agent statuses and
   expires units only in the handling of a recoverable fault: the status of
   an agent of the assignment other than the one the fault names becomes
   partner disconnect, and only the unit of the agent the fault names is
   expired.  When the call ends after a recoverable fault every other agent
   is partner disconnect, the unit of the named agent has been expired and
   cleanup_assignment has been invoked once; when it ends after another
   fault cleanup_assignment has been invoked once. *)
C23_AssignmentFaultHandling ==
  [][\A c \in DOMAIN call :
       (call[c].kind = "assignment" /\ call'[c] # call[c])
       => LET f == call[c] IN
          /\ f.outcome # "recoverable"
               => UNCHANGED <<agentStatus, expiredAgentUnits>>
          /\ expiredAgentUnits' \ expiredAgentUnits \subseteq {<<f.e, f.fault>>}
          /\ \A e \in Entities, j \in Agents :
               agentStatus'[e][j] # agentStatus[e][j]
               => (/\ e = f.e /\ j # f.fault
                   /\ agentStatus'[e][j] = "partner disconnect")
          /\ (call'[c].pc = "ended" /\ f.outcome = "other")
               => call'[c].cleanups = 1
          /\ (call'[c].pc = "ended" /\ f.outcome = "recoverable")
               => /\ call'[c].cleanups = 1
                  /\ <<f.e, f.fault>> \in expiredAgentUnits'
                  /\ \A j \in Agents \ {f.fault} :
                       agentStatus'[f.e][j] = "partner disconnect"]_vars

(* ------------------------- fault handling of units ---------------------- *)
(* C24: a step of a launch_unit call changes the assigned-agent references
   only in the handling of a recoverable fault, where it clears the
   reference of its unit.  When the call ends after a recoverable fault the
   reference is cleared and cleanup_unit has been invoked; when it ends
   after another fault cleanup_unit has been invoked. *)
C24_UnitFaultHandling ==
  [][\A c \in DOMAIN call :
       (call[c].kind = "unit" /\ call'[c] # call[c])
       => LET f == call[c] IN
          /\ f.outcome # "recoverable" => UNCHANGED assignedAgent
          /\ assignedAgent' \in {assignedAgent, assignedAgent \ {f.e}}
          /\ (call'[c].pc = "ended" /\ f.outcome = "other")
               => call'[c].cleanups = 1
          /\ (call'[c].pc = "ended" /\ f.outcome = "recoverable")
               => (f.e \notin assignedAgent' /\ call'[c].cleanups = 1)]_vars

(* ----------------------------- reconciliation --------------------------- *)
(* C25: the reconciliation of lines 150-159 leaves in launched_units exactly
   the units whose status is launched or assigned, and no other step takes
   a unit out of launched_units. *)
C25_ReconcileRemovesExactlyEnded ==
  [][/\ (launchPc = "gen_reconcile" /\ launchPc' # launchPc)
          => Range(launched_units')
               = {u \in Range(launched_units) : unitStatus[u] \in RunningStatuses}
     /\ (launchPc # "gen_reconcile" \/ launchPc' = launchPc)
          => Range(launched_units) \subseteq Range(launched_units')]_vars

(* a reconciliation has just taken a completed or expired unit out of
   launched_units and counted its slot as free, while another unit waits *)
C25_Witness ==
  /\ launchPc = "gen_iter"
  /\ Len(hist.yielded) >= 1
  /\ hist.yielded[1] \notin Range(launched_units)
  /\ unitStatus[hist.yielded[1]] \in TerminalStatuses
  /\ gen.num_avail_units >= 1
  /\ unlaunched_units # <<>>

(* -------------------------- end of the generator ------------------------ *)
(* the launch thread is inside generate_units, or launching the unit it has
   just been handed *)
InGenerator ==
  launchPc \in {"gen_while", "gen_reconcile", "gen_iter", "gen_next", "launch",
                "gen_pop"}

(* C26, as claimed: generate_units ends after a cycle only when
   unlaunched_units is empty and that cycle yielded nothing; after a cycle
   that yielded a unit it goes on with another cycle. *)
C26_EndsOnlyAfterIdleCycle ==
  [][(launchPc = "gen_pop" /\ launchPc' \notin {"gen_pop", "gen_while"})
       => (gen.to_remove = <<>> /\ unlaunched_units' = <<>>)]_vars

(* C26, amended: after the pop of a cycle generate_units ends when
   unlaunched_units is then empty, whether the cycle yielded or not, and
   goes on with another cycle otherwise; apart from that it ends only at the
   while test of line 149, when keep_launching_units is false, or by the
   RuntimeError of the dict iterator. *)
C26_EndsWhenPendingEmpty ==
  [][/\ (InGenerator /\ ~InGenerator')
          => \/ launchPc = "gen_while" /\ ~keep_launching_units
             \/ launchPc = "gen_pop" /\ unlaunched_units' = <<>>
             \/ launchPc = "gen_next" /\ launchPc' = "crashed"
     /\ (launchPc = "gen_pop" /\ launchPc' # launchPc)
          => (launchPc' = "gen_while") = (unlaunched_units' # <<>>)]_vars

(* bounded mode, no expire_units: the generator has ended (and the launch
   thread with it) after cycles that yielded, the last of which emptied
   unlaunched_units *)
C26_Witness ==
  /\ generator_type = "none"
  /\ launchPc = "done"
  /\ ~hist.expireCalled
  /\ Len(hist.yielded) = Len(units) /\ Len(units) >= 2
  /\ unlaunched_units = <<>>

(* ------------------------- final agent statuses ------------------------- *)
(* C27: an agent whose status is completed, disconnect, timeout, expired or
   returned keeps that status in every step; the fault handling of
   launch_assignment does not make it partner disconnect. *)
C27_FinalStatusKept ==
  [][\A e \in Entities, j \in Agents :
       agentStatus[e][j] \in {"completed", "disconnect", "timeout", "expired",
                              "returned"}
       => agentStatus'[e][j] = agentStatus[e][j]]_vars

(* the fault handling of launch_assignment has gone through the agents, one
   of whom, not the one the fault names, had completed; another agent was
   made partner disconnect *)
C27_Witness ==
  \E c \in DOMAIN call :
    /\ call[c].kind = "assignment" /\ call[c].pc = "cleanup"
    /\ call[c].outcome = "recoverable"
    /\ \E j \in Agents \ {call[c].fault} :
         agentStatus[call[c].e][j] = "completed"

=============================================================================
